---- MODULE Spec2Model ----
(***************************************************************************)
(* Model of the VHDL entity parser of src/src/main.rs (VhdlParser).        *)
(* Text is a sequence of one-character strings.  The regular expressions   *)
(* of the source are modelled by matchers that follow the leftmost-first   *)
(* search of the regex crate; parse_content is a sequential process whose  *)
(* position is pc.                                                          *)
(***************************************************************************)
EXTENDS Naturals, Integers, Sequences, FiniteSets, TLC

\* parse_content: its argument, its position and its locals
VARIABLES input, content, pc, cleaned, entity_name, generics,
          port_content, port_declarations, ports, result

\* the clause splitter on its own: an interior text, the section located in port(...), the
\* clauses of it, and the clauses of those clauses joined again
VARIABLES split_text, located, declarations, redeclarations, split_pc

\* resolve_generic_range on its own: its arguments and its result
VARIABLES res_range, res_generics, res_config, resolved, res_pc

\* generate_testbench_data and apply_to_template: their arguments, their results, and
\* the texts rendered by the calls made so far
VARIABLES entity, tb_config, template, testbench_data, final_testbench, rendered, gen_pc

\* main: the command line, what was read from the input file, the baseline config, the
\* files written, how the run ended, and the statement main is at; entity, tb_config,
\* template, testbench_data and final_testbench are its locals as well
VARIABLES matches, file_content, baseline_config, written, exit_code, main_pc

parse_vars == <<input, content, pc, cleaned, entity_name, generics,
                port_content, port_declarations, ports, result>>

split_vars == <<split_text, located, declarations, redeclarations, split_pc>>

res_vars == <<res_range, res_generics, res_config, resolved, res_pc>>

gen_vars == <<entity, tb_config, template, testbench_data, final_testbench, rendered, gen_pc>>

main_vars == <<matches, file_content, baseline_config, written, exit_code, main_pc>>

vars == <<parse_vars, split_vars, res_vars, gen_vars, main_vars>>

----------------------------------------------------------------------------
(* Characters and strings *)

Chars(str) == [i \in 1..Len(str) |-> SubSeq(str, i, i)]

UpperLetters == Chars("ABCDEFGHIJKLMNOPQRSTUVWXYZ")
LowerLetters == Chars("abcdefghijklmnopqrstuvwxyz")
Digits == Chars("0123456789")

UpperSet == {UpperLetters[i] : i \in 1..Len(UpperLetters)}
LowerSet == {LowerLetters[i] : i \in 1..Len(LowerLetters)}
DigitSet == {Digits[i] : i \in 1..Len(Digits)}

\* char::is_whitespace / regex \s, restricted to the characters the inputs use
IsSpace(c) == c \in {" ", "\t", "\n", "\r"}

\* regex \w
IsWord(c) == c \in UpperSet \cup LowerSet \cup DigitSet \cup {"_"}

LowerOf == [c \in UpperSet |-> LowerLetters[CHOOSE i \in 1..Len(UpperLetters) : UpperLetters[i] = c]]
UpperOf == [c \in LowerSet |-> UpperLetters[CHOOSE i \in 1..Len(LowerLetters) : LowerLetters[i] = c]]

LowerChar(c) == IF c \in UpperSet THEN LowerOf[c] ELSE c
UpperChar(c) == IF c \in LowerSet THEN UpperOf[c] ELSE c

to_lowercase(s) == [i \in 1..Len(s) |-> LowerChar(s[i])]
to_uppercase(s) == [i \in 1..Len(s) |-> UpperChar(s[i])]

Indices(s) == [i \in 1..Len(s) |-> i]

NoMatch == [found |-> FALSE]

FirstMatch(found) == IF found = <<>> THEN NoMatch ELSE found[1]

\* first element of a sequence of numbers, 0 if it is empty
FirstOr0(q) == IF q = <<>> THEN 0 ELSE q[1]

\* the leftmost match: ms[i] is the outcome of the regex tried at the i-th position
FirstFound(ms) == FirstMatch(SelectSeq(ms, LAMBDA m : m.found))

\* s has the literal lit at position i
HasAt(s, i, lit) ==
    /\ i >= 1
    /\ i + Len(lit) - 1 <= Len(s)
    /\ \A k \in 1..Len(lit) : s[i + k - 1] = lit[k]

\* the same, ignoring letter case ((?i) of the regex crate)
HasAtNoCase(s, i, lit) ==
    /\ i >= 1
    /\ i + Len(lit) - 1 <= Len(s)
    /\ \A k \in 1..Len(lit) : LowerChar(s[i + k - 1]) = LowerChar(lit[k])

\* first index >= i whose character is not white space (Len(s)+1 if none): \s* greedy
RECURSIVE SkipSpace(_, _)
SkipSpace(s, i) == IF i <= Len(s) /\ IsSpace(s[i]) THEN SkipSpace(s, i + 1) ELSE i

\* first index >= i whose character is not a word character: \w* greedy
RECURSIVE SkipWord(_, _)
SkipWord(s, i) == IF i <= Len(s) /\ IsWord(s[i]) THEN SkipWord(s, i + 1) ELSE i

\* str::trim
RECURSIVE TrimEnd(_)
TrimEnd(s) == IF s # <<>> /\ IsSpace(s[Len(s)]) THEN TrimEnd(SubSeq(s, 1, Len(s) - 1)) ELSE s

trim(s) == LET t == TrimEnd(s) IN SubSeq(t, SkipSpace(t, 1), Len(t))

\* [T]::join, the halves joined first
RECURSIVE join(_, _)
join(parts, sep) ==
    IF parts = <<>> THEN <<>>
    ELSE IF Len(parts) = 1 THEN parts[1]
    ELSE LET mid == Len(parts) \div 2
         IN join(SubSeq(parts, 1, mid), sep) \o sep \o join(SubSeq(parts, mid + 1, Len(parts)), sep)

\* first index >= i whose character is white space (Len(s)+1 if none)
RECURSIVE SkipNonSpace(_, _)
SkipNonSpace(s, i) == IF i <= Len(s) /\ ~IsSpace(s[i]) THEN SkipNonSpace(s, i + 1) ELSE i

\* str::split_whitespace: the maximal runs of characters that are not white space
split_whitespace(s) ==
    LET starts == SelectSeq(Indices(s),
                            LAMBDA i : ~IsSpace(s[i]) /\ (i = 1 \/ IsSpace(s[i - 1])))
    IN [k \in 1..Len(starts) |-> SubSeq(s, starts[k], SkipNonSpace(s, starts[k]) - 1)]

\* str::lines: split at "\n", a "\r" right before it is dropped, no last empty line
lines(s) ==
    LET nl == SelectSeq(Indices(s), LAMBDA i : s[i] = "\n")
        n == Len(nl) + (IF s # <<>> /\ s[Len(s)] # "\n" THEN 1 ELSE 0)
        from(k) == IF k = 1 THEN 1 ELSE nl[k - 1] + 1
        to(k) == IF k > Len(nl) THEN Len(s)
                 ELSE IF nl[k] - 1 >= from(k) /\ s[nl[k] - 1] = "\r" THEN nl[k] - 2
                 ELSE nl[k] - 1
    IN [k \in 1..n |-> SubSeq(s, from(k), to(k))]

\* str::replace('\n', " ") and str::replace('\r', "")
replace_newlines(s) == [i \in 1..Len(s) |-> IF s[i] = "\n" THEN " " ELSE s[i]]
remove_returns(s) == SelectSeq(s, LAMBDA c : c # "\r")

----------------------------------------------------------------------------
(* VhdlParser::clean_content *)

\* comment_re = "--.*$" replaced by "": the line up to its first "--"
CommentStart(line) ==
    FirstOr0(SelectSeq(Indices(line), LAMBDA i : HasAt(line, i, <<"-", "-">>)))

CutAt(line, start) == IF start = 0 THEN line ELSE SubSeq(line, 1, start - 1)

comment_re_replace(line) == CutAt(line, CommentStart(line))

StripLines(ls) == [k \in 1..Len(ls) |-> comment_re_replace(ls[k])]

\* clean_content that leaves the comments in
clean_content_keep_comments(text) ==
    to_lowercase(join(split_whitespace(join(lines(text), <<" ">>)), <<" ">>))

clean_content(text) ==
    to_lowercase(join(split_whitespace(join(StripLines(lines(text)), <<" ">>)), <<" ">>))

----------------------------------------------------------------------------
(* VhdlParser::extract_entity_name *)

KwEntity == Chars("entity")
KwIs == Chars("is")
KwGeneric == Chars("generic")
KwPort == Chars("port")
KwIn == Chars("in")
KwOut == Chars("out")
KwInout == Chars("inout")

\* Option<T> is a sequence of at most one element
None == <<>>
Some(v) == <<v>>

\* \s+is after the name s[b..c-1]
EntityReIs(s, b, c, d) ==
    IF d > c /\ HasAt(s, d, KwIs) THEN [found |-> TRUE, cap1 |-> SubSeq(s, b, c - 1)]
    ELSE NoMatch

\* (\w+) from b
EntityReName(s, b, c) == IF c > b THEN EntityReIs(s, b, c, SkipSpace(s, c)) ELSE NoMatch

\* \s+ after the keyword, which ends before a
EntityReSpace(s, a, b) == IF b > a THEN EntityReName(s, b, SkipWord(s, b)) ELSE NoMatch

\* the regex entity\s+(\w+)\s+is tried at position i
EntityReAt(s, i) ==
    IF HasAt(s, i, KwEntity) THEN EntityReSpace(s, i + 6, SkipSpace(s, i + 6)) ELSE NoMatch

\* Regex::captures: the leftmost match of the regex in s
EntityRe(s) == FirstFound([i \in 1..Len(s) |-> EntityReAt(s, i)])

EntityNameResult(caps) ==
    IF caps.found THEN [ok |-> TRUE, value |-> caps.cap1]
    ELSE [ok |-> FALSE, value |-> Chars("Could not find entity name")]

\* extract_entity_name that falls back to an empty name
extract_entity_name_or_empty(text) ==
    IF EntityRe(text).found THEN EntityNameResult(EntityRe(text)) ELSE [ok |-> TRUE, value |-> <<>>]

extract_entity_name(text) == EntityNameResult(EntityRe(text))

----------------------------------------------------------------------------
(* VhdlParser::extract_generics *)

\* the lazy (.*?) followed by \)\s*; from i: the first e >= i with s[e] = ")" and \s*;
\* after it, 0 if there is none or a "\n" (which . excludes) comes before it
LazyCloseAt(s, i, e) == IF e = 0 \/ (\E k \in i..(e - 1) : s[k] = "\n") THEN 0 ELSE e

LazyClose(s, i) ==
    LazyCloseAt(s, i,
        FirstOr0(SelectSeq(Indices(s),
            LAMBDA e : e >= i /\ s[e] = ")" /\ HasAt(s, SkipSpace(s, e + 1), <<";">>))))

GenericReClose(s, open, close) ==
    IF close # 0 THEN [found |-> TRUE, cap1 |-> SubSeq(s, open + 1, close - 1)] ELSE NoMatch

GenericReOpen(s, open) ==
    IF HasAt(s, open, <<"(">>) THEN GenericReClose(s, open, LazyClose(s, open + 1)) ELSE NoMatch

\* the regex generic\s*\((.*?)\)\s*; tried at position i
GenericReAt(s, i) ==
    IF HasAt(s, i, KwGeneric) THEN GenericReOpen(s, SkipSpace(s, i + 7)) ELSE NoMatch

GenericRe(s) == FirstFound([i \in 1..Len(s) |-> GenericReAt(s, i)])

\* first index >= i whose character is one of ; , ) : [^;,)]* greedy
RECURSIVE SkipDefault(_, _)
SkipDefault(s, i) ==
    IF i <= Len(s) /\ s[i] \notin {";", ",", ")"} THEN SkipDefault(s, i + 1) ELSE i

\* ([^;,)]+) after := and \s*, which ends before f; h is where the class stops.
\* When the class finds nothing at f, \s* gives its last white space back to it.
ItemReDefault(s, i, a, c, d, g, f, h) ==
    IF h > f
    THEN [found |-> TRUE, cap1 |-> SubSeq(s, i, a - 1), cap2 |-> SubSeq(s, c, d - 1),
          cap3 |-> Some(SubSeq(s, f, h - 1)), end |-> h]
    ELSE IF f > g
    THEN [found |-> TRUE, cap1 |-> SubSeq(s, i, a - 1), cap2 |-> SubSeq(s, c, d - 1),
          cap3 |-> Some(SubSeq(s, f - 1, f - 1)), end |-> f]
    ELSE [found |-> TRUE, cap1 |-> SubSeq(s, i, a - 1), cap2 |-> SubSeq(s, c, d - 1),
          cap3 |-> None, end |-> d]

\* (?:\s*:=\s*([^;,)]+))? after the type s[c..d-1]; e is the index after \s*
ItemReAssign(s, i, a, c, d, e) ==
    IF HasAt(s, e, <<":", "=">>)
    THEN ItemReDefault(s, i, a, c, d, e + 2, SkipSpace(s, e + 2), SkipDefault(s, SkipSpace(s, e + 2)))
    ELSE [found |-> TRUE, cap1 |-> SubSeq(s, i, a - 1), cap2 |-> SubSeq(s, c, d - 1),
          cap3 |-> None, end |-> d]

\* (\w+) from c
ItemReType(s, i, a, c, d) ==
    IF d > c THEN ItemReAssign(s, i, a, c, d, SkipSpace(s, d)) ELSE NoMatch

\* \s*:\s* after the name s[i..a-1]; b is the index after the first \s*
ItemReColon(s, i, a, b) ==
    IF a > i /\ HasAt(s, b, <<":">>)
    THEN ItemReType(s, i, a, SkipSpace(s, b + 1), SkipWord(s, SkipSpace(s, b + 1)))
    ELSE NoMatch

\* the regex (\w+)\s*:\s*(\w+)(?:\s*:=\s*([^;,)]+))? tried at position i
GenericItemReAt(s, i) == ItemReColon(s, i, SkipWord(s, i), SkipSpace(s, SkipWord(s, i)))

VhdlGeneric(name, type, default) ==
    [name |-> name, generic_type |-> type, default_value |-> default]

\* default_val = caps.get(3).map(|m| m.as_str().trim().to_string())
GenericOf(m) ==
    VhdlGeneric(m.cap1, m.cap2, IF m.cap3 = None THEN None ELSE Some(trim(m.cap3[1])))

\* captures_iter: the successive leftmost matches, each searched from where the last ended
RECURSIVE GenericItems(_, _)
GenericItemsNext(s, m) ==
    IF m.found THEN <<GenericOf(m)>> \o GenericItems(s, m.end) ELSE <<>>

GenericItems(s, i) ==
    GenericItemsNext(s, FirstFound([k \in 1..(Len(s) + 1 - i) |-> GenericItemReAt(s, i + k - 1)]))

GenericsOf(caps) == IF caps.found THEN GenericItems(caps.cap1, 1) ELSE <<>>

extract_generics(text) == GenericsOf(GenericRe(text))

----------------------------------------------------------------------------
(* VhdlParser::extract_ports and its helpers *)

\* port_start_re = (?i)port\s*\( : index of the opening "(" of the leftmost match, 0 if none
PortKeyword(text) ==
    FirstOr0(SelectSeq(Indices(text),
        LAMBDA i : HasAtNoCase(text, i, KwPort) /\ HasAt(text, SkipSpace(text, i + 4), <<"(">>)))

StartPos(text, kw) == IF kw = 0 THEN 0 ELSE SkipSpace(text, kw + 4)

port_start(text) == StartPos(text, PortKeyword(text))

\* a turn that takes the first ")" for the end, whatever the count
BalancedStepFirstClose(st, i, ch) ==
    IF ch = ")" THEN [paren_count |-> 0, end_pos |-> i, brk |-> TRUE] ELSE st

\* one turn of the balanced count: st is [paren_count, end_pos, brk], i the index of ch
BalancedStep(st, i, ch) ==
    IF ch = "(" THEN [st EXCEPT !.paren_count = @ + 1]
    ELSE IF ch = ")"
         THEN (IF st.paren_count - 1 = 0
               THEN [paren_count |-> 0, end_pos |-> i, brk |-> TRUE]
               ELSE [st EXCEPT !.paren_count = @ - 1])
    ELSE st

\* the for loop over s[lo..hi], its first half run before its second; brk ends it
RECURSIVE BalancedLoop(_, _, _, _)
BalancedRest(s, mid, hi, left) ==
    IF left.brk THEN left ELSE BalancedLoop(s, mid + 1, hi, left)

BalancedLoop(s, lo, hi, st) ==
    IF lo > hi THEN st
    ELSE IF lo = hi THEN BalancedStep(st, lo, s[lo])
    ELSE BalancedRest(s, (lo + hi) \div 2, hi, BalancedLoop(s, lo, (lo + hi) \div 2, st))

\* end_pos that takes the end of the text for the end of an unbalanced section
end_pos_or_end(text, start_pos) ==
    IF BalancedLoop(text, start_pos, Len(text),
                    [paren_count |-> 0, end_pos |-> 0, brk |-> FALSE]).brk
    THEN BalancedLoop(text, start_pos, Len(text),
                      [paren_count |-> 0, end_pos |-> 0, brk |-> FALSE]).end_pos
    ELSE Len(text)

\* index of the ")" that brings paren_count back to 0 counting from start_pos, 0 if none
end_pos(text, start_pos) ==
    BalancedLoop(text, start_pos, Len(text), [paren_count |-> 0, end_pos |-> 0, brk |-> FALSE]).end_pos

\* a turn that takes every ";" for a boundary, whatever the depth
SplitStepAnyDepth(st, ch) ==
    IF ch = "(" THEN [st EXCEPT !.paren_depth = @ + 1, !.current = Append(@, ch)]
    ELSE IF ch = ")" THEN [st EXCEPT !.paren_depth = @ - 1, !.current = Append(@, ch)]
    ELSE IF ch = ";"
         THEN (IF trim(st.current) # <<>>
               THEN [st EXCEPT !.declarations = Append(@, trim(st.current)), !.current = <<>>]
               ELSE st)
    ELSE [st EXCEPT !.current = Append(@, ch)]

\* one turn of the loop of split_port_declarations_improved (it has no break)
SplitStep(st, ch) ==
    IF ch = "(" THEN [st EXCEPT !.paren_depth = @ + 1, !.current = Append(@, ch)]
    ELSE IF ch = ")" THEN [st EXCEPT !.paren_depth = @ - 1, !.current = Append(@, ch)]
    ELSE IF ch = ";" /\ st.paren_depth = 0
         THEN (IF trim(st.current) # <<>>
               THEN [st EXCEPT !.declarations = Append(@, trim(st.current)), !.current = <<>>]
               ELSE st)
    ELSE [st EXCEPT !.current = Append(@, ch)]

RECURSIVE SplitLoop(_, _, _, _)
SplitRest(s, mid, hi, left) ==
    IF left.brk THEN left ELSE SplitLoop(s, mid + 1, hi, left)

SplitLoop(s, lo, hi, st) ==
    IF lo > hi THEN st
    ELSE IF lo = hi THEN SplitStep(st, s[lo])
    ELSE SplitRest(s, (lo + hi) \div 2, hi, SplitLoop(s, lo, (lo + hi) \div 2, st))

\* a splitter that forgets the declaration after the last semicolon
SplitLastDropped(st) == st.declarations

\* the last declaration, if it does not end with a semicolon
SplitLast(st) ==
    IF trim(st.current) # <<>> THEN Append(st.declarations, trim(st.current))
    ELSE st.declarations

\* VhdlParser::split_port_declarations_improved
split_port_declarations_improved(text) ==
    SplitLast(SplitLoop(text, 1, Len(text),
        [declarations |-> <<>>, current |-> <<>>, paren_depth |-> 0, brk |-> FALSE]))

\* first index >= i whose character is ")" (Len(s)+1 if none): [^)]* greedy
RECURSIVE SkipToClose(_, _)
SkipToClose(s, i) == IF i <= Len(s) /\ s[i] # ")" THEN SkipToClose(s, i + 1) ELSE i

\* one alternative of (in|out|inout) followed by \s+ at position i; next is the index
\* after the white space, 0 when the alternative does not match
DirectionAlt(s, i, kw, next) ==
    IF HasAtNoCase(s, i, kw) /\ next > i + Len(kw)
    THEN [next |-> next, cap |-> SubSeq(s, i, i + Len(kw) - 1)]
    ELSE [next |-> 0, cap |-> <<>>]

FirstAlt(a, b, c) == IF a.next # 0 THEN a ELSE IF b.next # 0 THEN b ELSE c

\* (in|out|inout)\s+ at position i, the alternatives in the order written
DirectionAt(s, i) ==
    FirstAlt(DirectionAlt(s, i, KwIn, SkipSpace(s, i + 2)),
             DirectionAlt(s, i, KwOut, SkipSpace(s, i + 3)),
             DirectionAlt(s, i, KwInout, SkipSpace(s, i + 5)))

RangeBetween(s, open, close) ==
    IF HasAt(s, open, <<"(">>) /\ close <= Len(s) THEN Some(SubSeq(s, open, close)) ELSE None

\* group 4, (?:\s*(\([^)]*\)))? , tried at position i: from "(" to the first ")"
RangeAt(s, i) == RangeBetween(s, SkipSpace(s, i), SkipToClose(s, SkipSpace(s, i) + 1))

\* (\w+(?:_\w+)*) from dir.next, then group 4
PortReType(s, i, a, dir, e) ==
    IF e > dir.next
    THEN [found |-> TRUE, cap1 |-> SubSeq(s, i, a - 1), cap2 |-> dir.cap,
          cap3 |-> SubSeq(s, dir.next, e - 1), cap4 |-> RangeAt(s, e)]
    ELSE NoMatch

PortReDirection(s, i, a, dir) ==
    IF dir.next # 0 THEN PortReType(s, i, a, dir, SkipWord(s, dir.next)) ELSE NoMatch

\* \s*:\s* after the name s[i..a-1]; b is the index after the first \s*
PortReColon(s, i, a, b) ==
    IF a > i /\ HasAt(s, b, <<":">>)
    THEN PortReDirection(s, i, a, DirectionAt(s, SkipSpace(s, b + 1)))
    ELSE NoMatch

\* port_re = (?i)(\w+)\s*:\s*(in|out|inout)\s+(\w+(?:_\w+)*)(?:\s*(\([^)]*\)))? at position i
PortReAt(s, i) == PortReColon(s, i, SkipWord(s, i), SkipSpace(s, SkipWord(s, i)))

PortRe(s) == FirstFound([i \in 1..Len(s) |-> PortReAt(s, i)])

VhdlPort(name, direction, type, range) ==
    [name |-> name, direction |-> direction, signal_type |-> type, range |-> range]

PortOf(caps) ==
    IF caps.found
    THEN Some(VhdlPort(to_lowercase(caps.cap1), to_lowercase(caps.cap2),
                       to_lowercase(caps.cap3), caps.cap4))
    ELSE None

\* VhdlParser::parse_port_declaration_improved: None, or Some(port)
parse_port_declaration_improved(decl) ==
    PortOf(PortRe(join(split_whitespace(remove_returns(replace_newlines(trim(decl)))), <<" ">>)))

\* the ports of the declarations that parse, in order (the loop of extract_ports)
ParsedPorts(decls) ==
    SelectSeq([k \in 1..Len(decls) |-> parse_port_declaration_improved(decls[k])],
              LAMBDA port : port # None)

PortValues(somes) == [k \in 1..Len(somes) |-> somes[k][1]]

NoPortSection == [ok |-> TRUE, port_content |-> None, port_declarations |-> None, value |-> <<>>]

PortsOfDeclarations(interior, decls) ==
    [ok |-> TRUE, port_content |-> Some(interior), port_declarations |-> Some(decls),
     value |-> PortValues(ParsedPorts(decls))]

PortsOfContent(interior) ==
    PortsOfDeclarations(interior, split_port_declarations_improved(interior))

PortsBetween(text, start_pos, end) ==
    IF end # 0 THEN PortsOfContent(SubSeq(text, start_pos + 1, end - 1)) ELSE NoPortSection

PortsFrom(text, start_pos) ==
    IF start_pos # 0 THEN PortsBetween(text, start_pos, end_pos(text, start_pos))
    ELSE NoPortSection

\* VhdlParser::extract_ports: Ok(ports), with the section interior and the declarations
\* it logs on the way (None when it does not get that far)
extract_ports(text) == PortsFrom(text, port_start(text))

----------------------------------------------------------------------------
(* VhdlParser::parse_content as a function of the text *)

VhdlEntity(name, gens, prts) == [name |-> name, generics |-> gens, ports |-> prts]

EntityOf(name, gens, prts) ==
    IF ~name.ok THEN [ok |-> FALSE, value |-> name.value]
    ELSE IF ~prts.ok THEN [ok |-> FALSE, value |-> prts.value]
    ELSE [ok |-> TRUE, value |-> VhdlEntity(name.value, gens, prts.value)]

ParseCleaned(c) == EntityOf(extract_entity_name(c), extract_generics(c), extract_ports(c))

parse_content(text) == ParseCleaned(clean_content(text))

----------------------------------------------------------------------------
(* TestbenchGenerator::resolve_generic_range *)

\* HashMap::get: a map is a function from keys to values
get(map, key) == IF key \in DOMAIN map THEN Some(map[key]) ELSE None

\* Option::or_else and Option::unwrap_or
or_else(first, second) == IF first # None THEN first ELSE second
unwrap_or(opt, fallback) == IF opt # None THEN opt[1] ELSE fallback

\* first index >= i at which from occurs in text, 0 if none
NextOccurrence(text, from, i) ==
    FirstOr0(SelectSeq(Indices(text), LAMBDA k : k >= i /\ HasAt(text, k, from)))

\* str::replace: every occurrence of from (not empty), found left to right without
\* overlap, becomes to
RECURSIVE ReplaceFrom(_, _, _, _)
ReplaceAt(text, from, to, i, m) ==
    IF m = 0 THEN SubSeq(text, i, Len(text))
    ELSE SubSeq(text, i, m - 1) \o to \o ReplaceFrom(text, from, to, m + Len(from))

ReplaceFrom(text, from, to, i) == ReplaceAt(text, from, to, i, NextOccurrence(text, from, i))

replace(text, from, to) == ReplaceFrom(text, from, to, 1)

\* let default_value = "32";
default_value == Chars("32")

\* config.generics of an Option<&TestbenchConfig>, None without a config
ConfigGenerics(config) == IF config = None THEN None ELSE config[1].generics

\* a lookup that asks for the upper-cased name first
config_value_upper_first(generic, overrides) ==
    IF overrides = None THEN None
    ELSE or_else(get(overrides[1], to_uppercase(generic.name)), get(overrides[1], generic.name))

\* config.generics.as_ref().and_then(|g| g.get(&generic.name).or_else(|| g.get(generic_name)))
config_value(generic, overrides) ==
    IF overrides = None THEN None
    ELSE or_else(get(overrides[1], generic.name), get(overrides[1], to_uppercase(generic.name)))

\* the value of one generic: the override, else its default, else default_value
GenericValue(generic, config) ==
    unwrap_or(config_value(generic, ConfigGenerics(config)),
              unwrap_or(generic.default_value, default_value))

\* a replacement of the upper-cased name only
ReplaceUpperOnly(text, generic, value) == replace(text, to_uppercase(generic.name), value)

\* resolved.replace(generic_name, value) and then resolved.replace(&generic.name, value)
ReplaceBoth(text, generic, value) ==
    replace(replace(text, to_uppercase(generic.name), value), generic.name, value)

\* the for loop over the generics from the i-th on
RECURSIVE ResolveFrom(_, _, _, _)
ResolveFrom(text, gens, config, i) ==
    IF i > Len(gens) THEN text
    ELSE ResolveFrom(ReplaceBoth(text, gens[i], GenericValue(gens[i], config)), gens, config, i + 1)

resolve_generic_range(range, gens, config) == ResolveFrom(range, gens, config, 1)

----------------------------------------------------------------------------
(* TestbenchGenerator and TestbenchData *)

\* const DEFAULT_TEMPLATE: the bundled template, line by line
DEFAULT_TEMPLATE ==
    Chars("--=============================================================================\n")
    \o Chars("--Library Declarations:\n")
    \o Chars("--=============================================================================\n")
    \o Chars("library IEEE;\n")
    \o Chars("use IEEE.STD_LOGIC_1164.ALL;\n")
    \o Chars("use IEEE.NUMERIC_STD.ALL;\n")
    \o Chars("use ieee.math_real.all;\n")
    \o Chars("library UNISIM;\n")
    \o Chars("use UNISIM.VComponents.all;\n")
    \o Chars("--=============================================================================\n")
    \o Chars("--Entity Declaration:\n")
    \o Chars("--=============================================================================\n")
    \o Chars("entity {component_name}_tb is\n")
    \o Chars("end entity;\n")
    \o Chars("--=============================================================================\n")
    \o Chars("--Architecture\n")
    \o Chars("--=============================================================================\n")
    \o Chars("architecture testbench of {component_name}_tb is\n")
    \o Chars("--=============================================================================\n")
    \o Chars("--Component Declaration\n")
    \o Chars("--=============================================================================\n")
    \o Chars("component {component_name} is\n")
    \o Chars("    Port ( \n")
    \o Chars("{ports}\n")
    \o Chars("         );\n")
    \o Chars("end component;\n")
    \o Chars("--=============================================================================\n")
    \o Chars("--Signals\n")
    \o Chars("--=============================================================================\n")
    \o Chars("{internal_signals}\n")
    \o Chars("begin\n")
    \o Chars("--=============================================================================\n")
    \o Chars("--Port Map\n")
    \o Chars("--=============================================================================\n")
    \o Chars("uut: {component_name} \n")
    \o Chars("\tport map(\t\t\n")
    \o Chars("{port_connections});\n")
    \o Chars("--=============================================================================\n")
    \o Chars("--clk_100MHz generation \n")
    \o Chars("--=============================================================================\n")
    \o Chars("clkgen_proc: process\n")
    \o Chars("begin\n")
    \o Chars("{clk_gen}\n")
    \o Chars("end process clkgen_proc;\n")
    \o Chars("--=============================================================================\n")
    \o Chars("--Stimulus Process\n")
    \o Chars("--=============================================================================\n")
    \o Chars("stim_proc: process\n")
    \o Chars("begin\t\t\t\t\n")
    \o Chars("{stim_proc}\n")
    \o Chars("    wait;\n")
    \o Chars("end process stim_proc;\n")
    \o Chars("end testbench;")

\* the concatenation of a sequence of texts
concat(parts) == join(parts, <<>>)

\* str::contains and str::starts_with
contains(text, pat) == \E i \in 1..(Len(text) + 1) : HasAt(text, i, pat)
starts_with(text, pat) == HasAt(text, 1, pat)

\* format!("{}", n) of an unsigned number
RECURSIVE to_string(_)
to_string(n) ==
    IF n < 10 THEN <<Digits[n + 1]>> ELSE to_string(n \div 10) \o <<Digits[(n % 10) + 1]>>

\* the range of a port with the generics resolved, nothing for a port without range
ResolvedRange(port, gens, config) ==
    IF port.range # None THEN resolve_generic_range(port.range[1], gens, config) ELSE <<>>

\* one turn of the loop of generate_ports_string
PortsStringLine(prts, gens, config, i) ==
    Chars("        ") \o prts[i].name \o Chars(" : ") \o to_uppercase(prts[i].direction)
    \o Chars(" ") \o to_uppercase(prts[i].signal_type)
    \o ResolvedRange(prts[i], gens, config)
    \o (IF i - 1 < Len(prts) - 1 THEN Chars(";\n") ELSE Chars("\n"))

\* TestbenchGenerator::generate_ports_string
generate_ports_string(prts, gens, config) ==
    concat([i \in 1..Len(prts) |-> PortsStringLine(prts, gens, config, i)])

\* the default value of a testbench signal of the given (upper-cased) type
SignalDefault(type) ==
    IF type = Chars("STD_LOGIC") THEN Chars(" := '0'")
    ELSE IF type = Chars("STD_LOGIC_VECTOR") THEN Chars(" := (others => '0')")
    ELSE IF type = Chars("INTEGER") THEN Chars(" := 0")
    ELSE Chars(" := '0'")

\* one turn of the loop of generate_internal_signals
SignalDecl(port, gens, config) ==
    Chars("signal ") \o Chars("tb_") \o port.name \o Chars(" : ") \o to_uppercase(port.signal_type)
    \o ResolvedRange(port, gens, config)
    \o SignalDefault(to_uppercase(port.signal_type)) \o Chars(";")

\* ports.iter().any(|p| p.name.to_lowercase().contains("clk"))
AnyClkPort(prts) == \E i \in 1..Len(prts) : contains(to_lowercase(prts[i].name), Chars("clk"))

\* the clock signal added if no port name holds "clk"
ClockSignal(prts) ==
    IF ~AnyClkPort(prts) THEN <<Chars("signal tb_clk : STD_LOGIC := '0';")>> ELSE <<>>

\* TestbenchGenerator::generate_internal_signals
generate_internal_signals(prts, gens, config) ==
    join([i \in 1..Len(prts) |-> SignalDecl(prts[i], gens, config)] \o ClockSignal(prts),
         Chars("\n"))

\* one turn of the loop of generate_port_connections
Connection(prts, i) ==
    Chars("        ") \o prts[i].name \o Chars(" => tb_") \o prts[i].name
    \o (IF i - 1 < Len(prts) - 1 THEN Chars(",") ELSE <<>>)

\* TestbenchGenerator::generate_port_connections
generate_port_connections(prts) ==
    join([i \in 1..Len(prts) |-> Connection(prts, i)], Chars("\n"))

\* config.and_then(|c| c.clock_period_ns) and config.and_then(|c| c.reset_duration_ns)
ClockPeriod(config) == IF config = None THEN None ELSE config[1].clock_period_ns
ResetDuration(config) == IF config = None THEN None ELSE config[1].reset_duration_ns

ClockText(half_period) ==
    Chars("    tb_clk <= '0';\n    wait for ") \o to_string(half_period)
    \o Chars(" ns;\n    tb_clk <= '1';\n    wait for ") \o to_string(half_period) \o Chars(" ns;")

\* TestbenchGenerator::generate_clock_generation
generate_clock_generation(config) == ClockText(unwrap_or(ClockPeriod(config), 10) \div 2)

\* TestbenchGenerator::generate_basic_stack_test
generate_basic_stack_test(prts) ==
    Chars("    -- Basic stack test\n") \o Chars("    -- Test push operation\n")
    \o Chars("    tb_push <= '1';\n") \o Chars("    tb_pop <= '0';\n")
    \o Chars("    tb_data_in <= x\"DEADBEEF\";\n") \o Chars("    wait for 20 ns;\n")
    \o Chars("    tb_push <= '0';\n") \o Chars("    wait for 20 ns;\n\n")
    \o Chars("    -- Test pop operation\n") \o Chars("    tb_pop <= '1';\n")
    \o Chars("    wait for 20 ns;\n") \o Chars("    tb_pop <= '0';\n")
    \o Chars("    wait for 20 ns;\n\n")

\* the stimulus of generate_basic_test for a port of the given (upper-cased) type
BasicToggle(name, type) ==
    IF type = Chars("STD_LOGIC")
    THEN Chars("    tb_") \o name \o Chars(" <= '1';\n") \o Chars("    wait for 20 ns;\n")
         \o Chars("    tb_") \o name \o Chars(" <= '0';\n") \o Chars("    wait for 20 ns;\n")
    ELSE IF type = Chars("STD_LOGIC_VECTOR")
    THEN Chars("    tb_") \o name \o Chars(" <= (others => '1');\n")
         \o Chars("    wait for 20 ns;\n")
         \o Chars("    tb_") \o name \o Chars(" <= (others => '0');\n")
         \o Chars("    wait for 20 ns;\n")
    ELSE <<>>

\* one turn of the loop of generate_basic_test
BasicStimulus(port) ==
    IF port.direction = KwIn /\ port.name # Chars("clk") /\ port.name # Chars("rst")
    THEN BasicToggle(port.name, to_uppercase(port.signal_type))
    ELSE <<>>

\* TestbenchGenerator::generate_basic_test
generate_basic_test(prts) ==
    Chars("    -- Basic stimulus\n")
    \o concat([i \in 1..Len(prts) |-> BasicStimulus(prts[i])]) \o Chars("\n")

TestbenchConfig(clock, reset, vectors, overrides) ==
    [clock_period_ns |-> clock, reset_duration_ns |-> reset, test_vectors |-> vectors,
     generics |-> overrides]

TestVector(time_ns, inputs, expected_outputs, description) ==
    [time_ns |-> time_ns, inputs |-> inputs, expected_outputs |-> expected_outputs,
     description |-> description]

\* the orders in which a HashMap may hand out its keys: every sequence that holds each
\* key once
KeyOrders(map) ==
    {q \in [1..Cardinality(DOMAIN map) -> DOMAIN map] : \A k \in DOMAIN map : \E i \in DOMAIN q : q[i] = k}

\* the iteration orders of the two maps of a test vector
VectorOrders(vector) ==
    {[inputs |-> qi, expected_outputs |-> qe] :
        qi \in KeyOrders(vector.inputs),
        qe \in IF vector.expected_outputs = None THEN {<<>>}
               ELSE KeyOrders(vector.expected_outputs[1])}

\* the iteration orders of the maps of all the test vectors
OrdersOfVectors(vectors) ==
    {orders \in [1..Len(vectors) -> UNION {VectorOrders(vectors[i]) : i \in 1..Len(vectors)}] :
        \A i \in 1..Len(vectors) : orders[i] \in VectorOrders(vectors[i])}

\* the iteration orders of the maps of all the test vectors of a config
IterationOrders(config) ==
    IF config = None \/ config[1].test_vectors = None THEN {<<>>}
    ELSE OrdersOfVectors(config[1].test_vectors[1])

VectorHeader(vector, i) ==
    IF vector.description # None
    THEN Chars("    -- Test ") \o to_string(i) \o Chars(": ") \o vector.description[1] \o Chars("\n")
    ELSE Chars("    -- Test vector ") \o to_string(i) \o Chars("\n")

ApplyInput(signal, value) ==
    Chars("    tb_") \o signal \o Chars(" <= ") \o value \o Chars(";\n")

format_func(expected_value) ==
    IF starts_with(expected_value, Chars("x\"")) \/ contains(expected_value, Chars("downto"))
    THEN Chars("to_hstring")
    ELSE Chars("std_logic'image")

CheckOutput(signal, expected_value) ==
    Chars("    assert tb_") \o signal \o Chars(" = ") \o expected_value
    \o Chars(" report \"Expected ") \o signal \o Chars(" = ") \o expected_value
    \o Chars(", got \" & ") \o format_func(expected_value) \o Chars("(tb_") \o signal
    \o Chars(") severity error;\n")

CheckOutputs(expected, order) ==
    IF expected = None THEN <<>>
    ELSE concat([k \in 1..Len(order) |-> CheckOutput(order[k], expected[1][order[k]])])

\* one turn of the loop over the test vectors; order is the iteration order of its maps
VectorStimulus(vector, i, order) ==
    VectorHeader(vector, i)
    \o concat([k \in 1..Len(order.inputs) |->
                  ApplyInput(order.inputs[k], vector.inputs[order.inputs[k]])])
    \o Chars("    wait for ") \o to_string(vector.time_ns) \o Chars(" ns;\n")
    \o CheckOutputs(vector.expected_outputs, order.expected_outputs)
    \o Chars("\n")

TestVectors(vectors, orders) ==
    Chars("    -- Test vectors\n")
    \o concat([i \in 1..Len(vectors) |-> VectorStimulus(vectors[i], i, orders[i])])

ResetSequence(reset_duration) ==
    Chars("    -- Reset sequence\n    tb_rst <= '1';\n    wait for ") \o to_string(reset_duration)
    \o Chars(" ns;\n    tb_rst <= '0';\n    wait for 20 ns;\n\n")

StimulusBody(prts, config, orders) ==
    IF config # None
    THEN (IF config[1].test_vectors # None
          THEN TestVectors(config[1].test_vectors[1], orders)
          ELSE generate_basic_stack_test(prts))
    ELSE generate_basic_test(prts)

\* TestbenchGenerator::generate_stimulus_process; orders are the iteration orders the
\* maps of the test vectors have in this call
generate_stimulus_process(prts, config, orders) ==
    ResetSequence(unwrap_or(ResetDuration(config), 100))
    \o StimulusBody(prts, config, orders)
    \o Chars("    -- End of test\n    report \"Test completed\" severity note;\n")

TestbenchData(component_name, ports_string, internal_signals, port_connections, clk_gen, stim_proc) ==
    [component_name |-> component_name, ports |-> ports_string,
     internal_signals |-> internal_signals, port_connections |-> port_connections,
     clk_gen |-> clk_gen, stim_proc |-> stim_proc]

\* TestbenchGenerator::generate_testbench_data
generate_testbench_data(entity_value, config, orders) ==
    TestbenchData(entity_value.name,
                  generate_ports_string(entity_value.ports, entity_value.generics, config),
                  generate_internal_signals(entity_value.ports, entity_value.generics, config),
                  generate_port_connections(entity_value.ports),
                  generate_clock_generation(config),
                  generate_stimulus_process(entity_value.ports, config, orders))

\* TestbenchData::apply_to_template
apply_to_template(data, template_text) ==
    replace(replace(replace(replace(replace(replace(template_text,
        Chars("{component_name}"), data.component_name),
        Chars("{ports}"), data.ports),
        Chars("{internal_signals}"), data.internal_signals),
        Chars("{port_connections}"), data.port_connections),
        Chars("{clk_gen}"), data.clk_gen),
        Chars("{stim_proc}"), data.stim_proc)

----------------------------------------------------------------------------
(* generate_baseline_config, generate_vhdl_template and parse_file *)

\* HashMap::insert
insert(map, key, value) ==
    [k \in DOMAIN map \cup {key} |-> IF k = key THEN value ELSE map[k]]

\* a sample value that is the single bit form whatever the port is
SampleValueSingleBit(port) == Chars("0")

\* the sample value of a port, by its type and by whether it has a range
SampleValue(port) ==
    IF port.signal_type = Chars("std_logic") THEN Chars("0")
    ELSE IF port.signal_type = Chars("std_logic_vector")
         THEN IF port.range # None THEN Chars("\"00000000\"") ELSE Chars("\"0\"")
         ELSE Chars("0")

\* for port in &entity.ports: the map of the ports of one direction after the first n ports
RECURSIVE SampleMap(_, _, _)
SampleMap(prts, direction, n) ==
    IF n = 0 THEN <<>>
    ELSE IF prts[n].direction = Chars(direction)
         THEN insert(SampleMap(prts, direction, n - 1), prts[n].name, SampleValue(prts[n]))
         ELSE SampleMap(prts, direction, n - 1)

sample_inputs(entity_value) == SampleMap(entity_value.ports, "in", Len(entity_value.ports))

expected_outputs(entity_value) == SampleMap(entity_value.ports, "out", Len(entity_value.ports))

sample_test_vector(entity_value) ==
    TestVector(100, sample_inputs(entity_value), Some(expected_outputs(entity_value)),
               Some(Chars("Sample test case - modify as needed")))

\* for generic in &entity.generics: the map after the first n generics
RECURSIVE generics_map(_, _)
generics_map(gens, n) ==
    IF n = 0 THEN <<>>
    ELSE IF gens[n].default_value # None
         THEN insert(generics_map(gens, n - 1), gens[n].name, gens[n].default_value[1])
         ELSE generics_map(gens, n - 1)

NoneIfEmpty(map) == IF DOMAIN map = {} THEN None ELSE Some(map)

generate_baseline_config(entity_value) ==
    TestbenchConfig(Some(10), Some(100), Some(<<sample_test_vector(entity_value)>>),
                    NoneIfEmpty(generics_map(entity_value.generics, Len(entity_value.generics))))

\* generate_vhdl_template: the entity template, line by line
generate_vhdl_template(name) ==
    Chars("-- =============================================================================\n")
    \o Chars("-- VHDL Entity Template\n")
    \o Chars("-- Entity: ") \o name \o Chars("\n")
    \o Chars("-- =============================================================================\n")
    \o Chars("library IEEE;\n")
    \o Chars("use IEEE.STD_LOGIC_1164.ALL;\n")
    \o Chars("use IEEE.NUMERIC_STD.ALL;\n")
    \o Chars("\n")
    \o Chars("-- =============================================================================\n")
    \o Chars("-- Entity Declaration\n")
    \o Chars("-- =============================================================================\n")
    \o Chars("entity ") \o name \o Chars(" is\n")
    \o Chars("    Generic (\n")
    \o Chars("        -- Add your generics here\n")
    \o Chars("        -- DATA_WIDTH : INTEGER := 32;\n")
    \o Chars("        -- DEPTH      : INTEGER := 16\n")
    \o Chars("    );\n")
    \o Chars("    Port (\n")
    \o Chars("        -- Clock and Reset\n")
    \o Chars("        clk : in STD_LOGIC;\n")
    \o Chars("        rst : in STD_LOGIC;\n")
    \o Chars("        \n")
    \o Chars("        -- Add your input ports here\n")
    \o Chars("        -- enable     : in  STD_LOGIC;\n")
    \o Chars("        -- data_in    : in  STD_LOGIC_VECTOR(DATA_WIDTH-1 downto 0);\n")
    \o Chars("        \n")
    \o Chars("        -- Add your output ports here\n")
    \o Chars("        -- ready      : out STD_LOGIC;\n")
    \o Chars("        -- data_out   : out STD_LOGIC_VECTOR(DATA_WIDTH-1 downto 0)\n")
    \o Chars("    );\n")
    \o Chars("end entity ") \o name \o Chars(";\n")
    \o Chars("\n")
    \o Chars("-- =============================================================================\n")
    \o Chars("-- Architecture Declaration\n")
    \o Chars("-- =============================================================================\n")
    \o Chars("architecture RTL of ") \o name \o Chars(" is\n")
    \o Chars("    \n")
    \o Chars("    -- Internal signals\n")
    \o Chars("    -- signal internal_reg : STD_LOGIC_VECTOR(DATA_WIDTH-1 downto 0) := (others => '0');\n")
    \o Chars("    -- signal counter      : UNSIGNED(7 downto 0) := (others => '0');\n")
    \o Chars("    \n")
    \o Chars("begin\n")
    \o Chars("    \n")
    \o Chars("    -- ==========================================================================\n")
    \o Chars("    -- Main Process\n")
    \o Chars("    -- ==========================================================================\n")
    \o Chars("    main_process : process(clk)\n")
    \o Chars("    begin\n")
    \o Chars("        if rising_edge(clk) then\n")
    \o Chars("            if rst = '1' then\n")
    \o Chars("                -- Reset logic here\n")
    \o Chars("                -- internal_reg <= (others => '0');\n")
    \o Chars("                -- counter <= (others => '0');\n")
    \o Chars("            else\n")
    \o Chars("                -- Main logic here\n")
    \o Chars("                \n")
    \o Chars("            end if;\n")
    \o Chars("        end if;\n")
    \o Chars("    end process main_process;\n")
    \o Chars("    \n")
    \o Chars("    -- ==========================================================================\n")
    \o Chars("    -- Combinatorial Logic\n")
    \o Chars("    -- ==========================================================================\n")
    \o Chars("    -- Add your combinatorial assignments here\n")
    \o Chars("    -- data_out <= internal_reg;\n")
    \o Chars("    -- ready <= '1' when counter = 0 else '0';\n")
    \o Chars("    \n")
    \o Chars("end architecture RTL;\n")

\* map_err of parse_file on the error of parse_content
ParseError(r) ==
    IF r.ok THEN r ELSE [ok |-> FALSE, value |-> Chars("Failed to parse VHDL file: ") \o r.value]

\* a failed parse_file that is taken for an entity without generics and ports
parse_file_or_empty(read) ==
    IF read = None \/ ~parse_content(read[1]).ok
    THEN [ok |-> TRUE, value |-> VhdlEntity(Chars("unknown"), <<>>, <<>>)]
    ELSE parse_content(read[1])

\* VhdlParser::parse_file: read is what fs::read_to_string gives, None if it fails
parse_file(read) ==
    IF read = None THEN [ok |-> FALSE, value |-> Chars("Failed to read VHDL file")]
    ELSE ParseError(parse_content(read[1]))

----------------------------------------------------------------------------
(* The input texts: VHDL sources written out from a description of what   *)
(* they declare, so that what was written can be compared with what the   *)
(* parser extracts.                                                        *)

MaxClauses == 3     \* most clauses of a generated ports section
MaxNest == 2        \* deepest nesting of parentheses inside a generated range

\* separators that contain white space outside comments, and ones that do not
GoodSeps == {Chars(" "), Chars("\n"), Chars(" \t "), Chars(" -- entity zz is\n"), Chars("\r\n"),
             Chars("--c\n")}
BadSeps == {Chars(""), Chars(".")}

\* a call nested d deep, f(f(w)), and a range holding it
RECURSIVE NestedCall(_)
NestedCall(d) == IF d = 0 THEN Chars("w") ELSE Chars("f(") \o NestedCall(d - 1) \o Chars(")")

NestedRange(d) ==
    IF d = 0 THEN Chars("(7 downto 0)") ELSE Chars("(") \o NestedCall(d) \o Chars("-1 downto 0)")

\* a port clause <id> : <in|out|inout> <type> [(<range>)] as the source writes it
Clause(name, dir, type, range) ==
    [wf |-> TRUE, name |-> Chars(name), dir |-> Chars(dir), type |-> Chars(type), range |-> range,
     text |-> Chars(name) \o Chars(" : ") \o Chars(dir) \o Chars(" ") \o Chars(type)
              \o (IF range = None THEN <<>> ELSE range[1])]

\* a clause that does not have that shape
Malformed(text) == [wf |-> FALSE, text |-> Chars(text)]

PlainClause == Clause("clk", "in", "std_logic", None)
UpperClause == Clause("Din", "IN", "Std_Logic_Vector", Some(Chars("(DATA_WIDTH-1 downto 0)")))
SemiClause == Clause("io", "inout", "bus_t", Some(Chars("(g(1;2) to 3)")))
NoDirClause == Malformed("en : std_logic")
LeadClause == Malformed("x y : in bit")

NestedClauses == {Clause("q", "out", "std_logic_vector", Some(NestedRange(d))) : d \in 0..MaxNest}

ClauseKinds == {PlainClause, UpperClause, SemiClause, NoDirClause, LeadClause}

SeqsUpTo(S, n) == UNION {[1..k -> S] : k \in 0..n}

\* a generic <id> : <type> [:= <default>]
GenItem(name, type, default) ==
    [name |-> Chars(name), type |-> Chars(type), default |-> default,
     text |-> Chars(name) \o Chars(" : ") \o Chars(type)
              \o (IF default = None THEN <<>> ELSE Chars(" := ") \o default[1])]

GenA(d1) == GenItem("Width", "integer", Some(Chars(d1)))
GenB == GenItem("depth", "natural", None)
GenC == GenItem("c", "integer", Some(Chars("2")))

GenLists == {<<>>, <<GenA("8"), GenB>>, <<GenA("f(1)"), GenB>>, <<GenA("f(1)"), GenC>>,
             <<GenB, GenA("16")>>, <<GenC>>}

\* what follows the closing parenthesis of the generics block
GenTerms == {Chars(";"), Chars(" ;"), Chars(""), Chars(" -- c\n;")}

NoGens == [present |-> FALSE, items |-> <<>>, term |-> <<>>]
Gens(items, term) == [present |-> TRUE, items |-> items, term |-> term]

\* shape: "absent", "ok", "noclose" (no closing parenthesis), "extraopen" (one "(" too many)
Ports(shape, kw, clauses) == [shape |-> shape, kw |-> Chars(kw), clauses |-> clauses]
NoPorts == Ports("absent", "", <<>>)

DefaultInput ==
    [pre |-> Chars("library ieee;\n"), first |-> None,
     kw |-> Chars("entity"), sep1 |-> Chars(" "), id |-> Chars("e1"), sep2 |-> Chars(" "),
     isw |-> Chars("is"),
     gens |-> Gens(<<GenC>>, Chars(";")),
     prts |-> Ports("ok", "port ", <<PlainClause>>),
     post |-> Chars("end e1;")]

\* texts before the entity clause; first is the id of an entity clause they hold
Pres == {[text |-> Chars(""), first |-> None],
         [text |-> Chars("-- entity zz is\n"), first |-> None],
         [text |-> Chars("Entity First is end;\n"), first |-> Some(Chars("First"))]}

EntityInputs ==
    {[DefaultInput EXCEPT !.kw = Chars(k), !.sep1 = s1, !.id = Chars(i), !.sep2 = s2] :
        k \in {"entity", "ENTITY", "--entity"}, s1 \in GoodSeps \cup BadSeps,
        i \in {"e1", "My_Top", "a-b"}, s2 \in GoodSeps \cup BadSeps}
    \cup
    {[DefaultInput EXCEPT !.pre = p.text, !.first = p.first, !.isw = Chars(w), !.id = Chars(i),
                          !.prts = pt] :
        p \in Pres, w \in {"is", "IS", "of"}, i \in {"e1", "a-b"},
        pt \in {NoPorts, Ports("ok", "port ", <<PlainClause>>)}}

GenericInputs ==
    {[DefaultInput EXCEPT !.gens = g, !.prts = pt] :
        g \in {NoGens} \cup {Gens(items, term) : items \in GenLists, term \in GenTerms},
        pt \in {NoPorts, Ports("ok", "port ", <<PlainClause>>),
                Ports("ok", "PORT", <<UpperClause, PlainClause>>)}}

PortInputs ==
    {[DefaultInput EXCEPT !.prts = Ports(sh, "port ", cs), !.gens = g] :
        sh \in {"ok", "noclose", "extraopen"}, cs \in SeqsUpTo(ClauseKinds, MaxClauses),
        g \in {Gens(<<GenC>>, Chars(";"))}}
    \cup
    {[DefaultInput EXCEPT !.prts = Ports("ok", k, cs), !.gens = g] :
        k \in {"port", "Port  "},
        cs \in {<<c>> : c \in NestedClauses} \cup {<<PlainClause, c>> : c \in NestedClauses}
               \cup {<<c, UpperClause>> : c \in NestedClauses},
        g \in {NoGens, Gens(<<GenC>>, Chars(";"))}}

Inputs == EntityInputs \cup GenericInputs \cup PortInputs

ClauseTexts(clauses) == [k \in 1..Len(clauses) |-> clauses[k].text]
ItemTexts(items) == [k \in 1..Len(items) |-> items[k].text]

RenderGens(g) ==
    IF g.present
    THEN Chars("generic ( ") \o join(ItemTexts(g.items), Chars(" ; ")) \o Chars(" )") \o g.term
    ELSE <<>>

\* what stands between the parentheses of the ports section
WrittenInterior(p) ==
    Chars("\n  ") \o join(ClauseTexts(p.clauses), Chars(";\n  ")) \o Chars("\n")

RenderPorts(p) ==
    IF p.shape = "absent" THEN <<>>
    ELSE p.kw \o (IF p.shape = "extraopen" THEN Chars("((") ELSE Chars("("))
         \o (IF p.shape = "noclose" THEN SubSeq(WrittenInterior(p), 1, Len(WrittenInterior(p)) - 1)
             ELSE WrittenInterior(p) \o Chars(")"))
         \o Chars(";")

Render(in) ==
    in.pre \o in.kw \o in.sep1 \o in.id \o in.sep2 \o in.isw \o Chars("\n")
    \o RenderGens(in.gens) \o Chars("\n") \o RenderPorts(in.prts) \o Chars("\n") \o in.post

----------------------------------------------------------------------------
(* parse_content as a process: pc is the statement it is at *)

Unset == "unset"

\* parse_content is not run
ParseIdle ==
    /\ input = Unset /\ content = Unset /\ pc = Unset /\ cleaned = Unset
    /\ entity_name = Unset /\ generics = Unset /\ port_content = Unset
    /\ port_declarations = Unset /\ ports = Unset /\ result = Unset

\* resolve_generic_range is not run on its own
ResolveIdle ==
    /\ res_range = Unset /\ res_generics = Unset /\ res_config = Unset /\ resolved = Unset
    /\ res_pc = Unset

\* the generator is not run
GenerateIdle ==
    /\ entity = Unset /\ tb_config = Unset /\ template = Unset /\ testbench_data = Unset
    /\ final_testbench = Unset /\ rendered = Unset /\ gen_pc = Unset

\* main is not run
MainIdle ==
    /\ matches = Unset /\ file_content = Unset /\ baseline_config = Unset /\ written = Unset
    /\ exit_code = Unset /\ main_pc = Unset

\* the splitter is not run on its own
SplitIdle ==
    /\ split_text = Unset /\ located = Unset /\ declarations = Unset /\ redeclarations = Unset
    /\ split_pc = Unset

Init ==
    /\ input \in Inputs
    /\ content = Render(input)
    /\ pc = "clean"
    /\ cleaned = Unset
    /\ entity_name = Unset
    /\ generics = Unset
    /\ port_content = Unset
    /\ port_declarations = Unset
    /\ ports = Unset
    /\ result = Unset
    /\ SplitIdle /\ ResolveIdle /\ GenerateIdle /\ MainIdle

\* let cleaned = Self::clean_content(content);
CleanContent ==
    /\ pc = "clean"
    /\ cleaned' = clean_content(content)
    /\ pc' = "entity_name"
    /\ UNCHANGED <<input, content, entity_name, generics, port_content, port_declarations,
                   ports, result>>
    /\ UNCHANGED <<split_vars, res_vars, gen_vars, main_vars>>

\* let entity_name = Self::extract_entity_name(&cleaned)?;
ExtractEntityName ==
    /\ pc = "entity_name"
    /\ \E r \in {extract_entity_name(cleaned)} :
          IF r.ok
          THEN /\ entity_name' = r.value
               /\ pc' = "generics"
               /\ UNCHANGED result
          ELSE /\ result' = [ok |-> FALSE, value |-> r.value]
               /\ pc' = "done"
               /\ UNCHANGED entity_name
    /\ UNCHANGED <<input, content, cleaned, generics, port_content, port_declarations, ports>>
    /\ UNCHANGED <<split_vars, res_vars, gen_vars, main_vars>>

\* let generics = Self::extract_generics(&cleaned)?;
ExtractGenerics ==
    /\ pc = "generics"
    /\ generics' = extract_generics(cleaned)
    /\ pc' = "ports"
    /\ UNCHANGED <<input, content, cleaned, entity_name, port_content, port_declarations,
                   ports, result>>
    /\ UNCHANGED <<split_vars, res_vars, gen_vars, main_vars>>

\* let ports = Self::extract_ports(&cleaned)?;
ExtractPorts ==
    /\ pc = "ports"
    /\ \E r \in {extract_ports(cleaned)} :
          /\ port_content' = r.port_content
          /\ port_declarations' = r.port_declarations
          /\ IF r.ok
             THEN /\ ports' = r.value
                  /\ pc' = "return"
                  /\ UNCHANGED result
             ELSE /\ result' = [ok |-> FALSE, value |-> r.value]
                  /\ pc' = "done"
                  /\ UNCHANGED ports
    /\ UNCHANGED <<input, content, cleaned, entity_name, generics>>
    /\ UNCHANGED <<split_vars, res_vars, gen_vars, main_vars>>

\* Ok(VhdlEntity { name: entity_name, generics, ports })
ReturnEntity ==
    /\ pc = "return"
    /\ result' = [ok |-> TRUE, value |-> VhdlEntity(entity_name, generics, ports)]
    /\ pc' = "done"
    /\ UNCHANGED <<input, content, cleaned, entity_name, generics, port_content,
                   port_declarations, ports>>
    /\ UNCHANGED <<split_vars, res_vars, gen_vars, main_vars>>

Next == CleanContent \/ ExtractEntityName \/ ExtractGenerics \/ ExtractPorts \/ ReturnEntity

Spec == Init /\ [][Next]_vars

\* parse_content has returned
Done == pc = "done"

----------------------------------------------------------------------------
(* split_port_declarations_improved on its own, on every short text over   *)
(* the characters it tells apart, and the balanced scan of extract_ports   *)
(* on that text written as a ports section                                  *)

MaxSplitLen == 5    \* longest interior text

SplitAlphabet == {"a", " ", ";", "(", ")"}

SplitTexts == UNION {[1..n -> SplitAlphabet] : n \in 0..MaxSplitLen}

SplitInit ==
    /\ split_text \in SplitTexts
    /\ located = Unset /\ declarations = Unset /\ redeclarations = Unset
    /\ split_pc = "locate"
    /\ ParseIdle /\ ResolveIdle /\ GenerateIdle /\ MainIdle

\* extract_ports on port(split_text): the interior it takes, None when it takes none
LocateInterior ==
    /\ split_pc = "locate"
    /\ located' = extract_ports(KwPort \o <<"(">> \o split_text \o <<")">>).port_content
    /\ split_pc' = "split"
    /\ UNCHANGED <<split_text, declarations, redeclarations, parse_vars, res_vars, gen_vars, main_vars>>

\* split_port_declarations_improved(split_text)
SplitDeclarations ==
    /\ split_pc = "split"
    /\ declarations' = split_port_declarations_improved(split_text)
    /\ split_pc' = "resplit"
    /\ UNCHANGED <<split_text, located, redeclarations, parse_vars, res_vars, gen_vars, main_vars>>

\* split_port_declarations_improved of the declarations joined with ";"
SplitAgain ==
    /\ split_pc = "resplit"
    /\ redeclarations' = split_port_declarations_improved(join(declarations, <<";">>))
    /\ split_pc' = "done"
    /\ UNCHANGED <<split_text, located, declarations, parse_vars, res_vars, gen_vars, main_vars>>

SplitNext == LocateInterior \/ SplitDeclarations \/ SplitAgain

SplitSpec == SplitInit /\ [][SplitNext]_vars

SplitDone == split_pc = "done"

----------------------------------------------------------------------------
(* resolve_generic_range on its own *)

\* a map from the first to the second components of a set of pairs with distinct keys
MapOf(pairs) == [k \in {p[1] : p \in pairs} |-> (CHOOSE p \in pairs : p[1] = k)[2]]

\* a config that only overrides generics
OverridesOnly(overrides) == TestbenchConfig(None, None, None, overrides)

\* the configs for one generic: none, one without generics, and overrides under the
\* name as stored, under the upper-cased name, under both, and under another name
ConfigsFor(name) ==
    {None, Some(OverridesOnly(None))}
    \cup {Some(OverridesOnly(Some(MapOf(pairs)))) :
            pairs \in {{}, {<<name, Chars("16")>>}, {<<to_uppercase(name), Chars("24")>>},
                       {<<name, Chars("16")>>, <<to_uppercase(name), Chars("24")>>} ,
                       {<<Chars("depth"), Chars("4")>>}}}

RangeOf(name) == Chars("(") \o name \o Chars("-1 downto 0)")

\* one generic in three letter cases, with and without default, its range written with
\* the name as stored or upper-cased
InputsForName(name) ==
    {[range |-> r, generics |-> <<VhdlGeneric(name, Chars("integer"), d)>>, config |-> c] :
        d \in {None, Some(Chars("8"))},
        r \in {RangeOf(name), RangeOf(to_uppercase(name)), Chars("(7 downto 0)")},
        c \in ConfigsFor(name)}

SingleGenericInputs ==
    UNION {InputsForName(name) : name \in {Chars("WIDTH"), Chars("Width"), Chars("width")}}

\* generics whose values or names hold the names of other generics
TwoA == VhdlGeneric(Chars("a"), Chars("integer"), Some(Chars("8")))
TwoB == VhdlGeneric(Chars("b"), Chars("integer"), Some(Chars("a")))
ShortW == VhdlGeneric(Chars("w"), Chars("integer"), Some(Chars("8")))
LongDW == VhdlGeneric(Chars("dw"), Chars("integer"), Some(Chars("16")))

SeveralGenericsInputs ==
    {[range |-> r, generics |-> gs, config |-> c] :
        r \in {RangeOf(Chars("a")), RangeOf(Chars("b")), RangeOf(Chars("dw")),
               Chars("(a+b-1 downto 0)")},
        gs \in {<<TwoA, TwoB>>, <<TwoB, TwoA>>, <<ShortW, LongDW>>, <<LongDW, ShortW>>, <<>>},
        c \in {None, Some(OverridesOnly(Some(MapOf({<<Chars("a"), Chars("2")>>}))))}}

ResolveInputs == SingleGenericInputs \cup SeveralGenericsInputs

ResolveInit ==
    /\ \E in \in ResolveInputs :
          /\ res_range = in.range
          /\ res_generics = in.generics
          /\ res_config = in.config
    /\ resolved = Unset
    /\ res_pc = "resolve"
    /\ ParseIdle /\ SplitIdle /\ GenerateIdle /\ MainIdle

\* resolve_generic_range(range, generics, config)
ResolveGenericRange ==
    /\ res_pc = "resolve"
    /\ resolved' = resolve_generic_range(res_range, res_generics, res_config)
    /\ res_pc' = "done"
    /\ UNCHANGED <<res_range, res_generics, res_config, parse_vars, split_vars, gen_vars, main_vars>>

ResolveNext == ResolveGenericRange

ResolveSpec == ResolveInit /\ [][ResolveNext]_vars

ResolveDone == res_pc = "done"

----------------------------------------------------------------------------
(* generate_testbench_data followed by apply_to_template, called more than *)
(* once on the same entity, config and template                             *)

Calls == 2      \* number of calls made with the same arguments

\* the entity of tests::test_testbench_generation
StackEntity ==
    VhdlEntity(Chars("stack"),
        <<VhdlGeneric(Chars("DATA_WIDTH"), Chars("INTEGER"), Some(Chars("32")))>>,
        <<VhdlPort(Chars("clk"), Chars("in"), Chars("STD_LOGIC"), None),
          VhdlPort(Chars("data_in"), Chars("in"), Chars("STD_LOGIC_VECTOR"),
                   Some(Chars("(DATA_WIDTH-1 downto 0)"))),
          VhdlPort(Chars("data_out"), Chars("out"), Chars("STD_LOGIC_VECTOR"),
                   Some(Chars("(DATA_WIDTH-1 downto 0)")))>>)

\* the config of tests::test_testbench_generation
StackConfig ==
    TestbenchConfig(Some(10), Some(100), None,
                    Some(MapOf({<<Chars("DATA_WIDTH"), Chars("32")>>})))

\* an entity whose clock is not called clk and that has no reset
SysClkEntity ==
    VhdlEntity(Chars("top"), <<>>,
        <<VhdlPort(Chars("sys_clk"), Chars("in"), Chars("std_logic"), None),
          VhdlPort(Chars("en"), Chars("in"), Chars("std_logic"), None),
          VhdlPort(Chars("count"), Chars("out"), Chars("integer"), None)>>)

\* an entity with clk and rst
ClkRstEntity ==
    VhdlEntity(Chars("ff"), <<>>,
        <<VhdlPort(Chars("clk"), Chars("in"), Chars("std_logic"), None),
          VhdlPort(Chars("rst"), Chars("in"), Chars("std_logic"), None),
          VhdlPort(Chars("d"), Chars("in"), Chars("std_logic_vector"), Some(Chars("(3 downto 0)")))>>)

EmptyEntity == VhdlEntity(Chars("e"), <<>>, <<>>)

GenEntities == {StackEntity, SysClkEntity, ClkRstEntity, EmptyEntity}

\* a test vector with two inputs and two expected outputs, and one with one input
PushVector ==
    TestVector(20, MapOf({<<Chars("push"), Chars("'1'")>>, <<Chars("pop"), Chars("'0'")>>}),
               Some(MapOf({<<Chars("empty"), Chars("'0'")>>,
                           <<Chars("data_out"), Chars("x\"AB\"")>>})),
               Some(Chars("push one")))
DataVector ==
    TestVector(5, MapOf({<<Chars("data_in"), Chars("x\"AB\"")>>}), None, None)
OneEachVector ==
    TestVector(100, MapOf({<<Chars("clk"), Chars("0")>>}),
               Some(MapOf({<<Chars("q"), Chars("\"00000000\"")>>})), None)

GenConfigs ==
    {None, Some(StackConfig),
     Some(TestbenchConfig(Some(7), None, Some(<<PushVector, DataVector>>), None)),
     Some(TestbenchConfig(None, Some(50), Some(<<OneEachVector>>), None)),
     Some(TestbenchConfig(None, None, Some(<<>>), Some(MapOf({}))))}

\* a custom template with every placeholder, one of them twice
ShortTemplate ==
    Chars("-- {component_name}\n{ports}--\n{internal_signals}\n{port_connections}\n{clk_gen}\n")
    \o Chars("{stim_proc}end {component_name};")

GenTemplates == {DEFAULT_TEMPLATE, ShortTemplate}

GenInit ==
    /\ entity \in GenEntities
    /\ tb_config \in GenConfigs
    /\ template \in GenTemplates
    /\ testbench_data = Unset
    /\ final_testbench = Unset
    /\ rendered = <<>>
    /\ gen_pc = "generate"
    /\ ParseIdle /\ SplitIdle /\ ResolveIdle /\ MainIdle

\* TestbenchGenerator::generate_testbench_data(&entity, config.as_ref()); the maps of the
\* config are iterated in some order
GenerateTestbenchData ==
    /\ gen_pc = "generate"
    /\ \E orders \in IterationOrders(tb_config) :
          testbench_data' = generate_testbench_data(entity, tb_config, orders)
    /\ gen_pc' = "apply"
    /\ UNCHANGED <<entity, tb_config, template, final_testbench, rendered>>
    /\ UNCHANGED <<parse_vars, split_vars, res_vars, main_vars>>

\* testbench_data.apply_to_template(&template)
ApplyToTemplate ==
    /\ gen_pc = "apply"
    /\ \E text \in {apply_to_template(testbench_data, template)} :
          /\ final_testbench' = text
          /\ rendered' = Append(rendered, text)
    /\ gen_pc' = IF Len(rendered) + 1 < Calls THEN "generate" ELSE "done"
    /\ UNCHANGED <<entity, tb_config, template, testbench_data>>
    /\ UNCHANGED <<parse_vars, split_vars, res_vars, main_vars>>

GenNext == GenerateTestbenchData \/ ApplyToTemplate

GenSpec == GenInit /\ [][GenNext]_vars

GenDone == gen_pc = "done"

\* generate_testbench_data has just returned
DataReady == gen_pc = "apply"

----------------------------------------------------------------------------
(* main as a process: main_pc is the statement it is at, exit_code how it *)
(* ended; a run that has returned stays at the statement it returned from *)

\* the command lines: --input is required unless --generate-template is given
Paths(name) == {None, Some(Chars(name))}

CommandLines ==
    {[generate_template |-> gt, input |-> in, generate_config |-> gc, config |-> c,
      template |-> tp, output |-> o] :
        gt \in Paths("my_entity"), in \in Paths("in.vhd"), gc \in BOOLEAN,
        c \in Paths("c.toml"), tp \in Paths("t.vhd"), o \in Paths("out.vhd")}

Accepted(m) == m.input # None \/ m.generate_template # None

\* the entity counter with a generic and a port ranged by it
CounterText ==
    Chars("entity counter is\n  generic (WIDTH : integer := 4);\n")
    \o Chars("  port (clk : in std_logic; q : out std_logic_vector(WIDTH-1 downto 0));\n")
    \o Chars("end counter;\n")

\* an entity with ports of every direction, ranged and not
GateText ==
    Chars("entity gate is\n  port (\n    a : in std_logic;\n    d : in std_logic_vector(7 downto 0);\n")
    \o Chars("    n : in integer;\n    b : inout std_logic;\n    y : out std_logic_vector;\n")
    \o Chars("    z : out std_logic_vector(3 downto 0)\n  );\nend gate;\n")

\* a text without an entity
ArchitectureText == Chars("architecture rtl of counter is\nbegin\nend rtl;\n")

\* what fs::read_to_string gives for the input file: None if the file cannot be read
FileContents == {None, Some(CounterText), Some(GateText), Some(ArchitectureText), Some(<<>>)}

\* the configs load_config gives: an override of WIDTH, one of width, and one with a
\* test vector
WidthOverride == OverridesOnly(Some(MapOf({<<Chars("WIDTH"), Chars("4")>>})))
LowerOverride == OverridesOnly(Some(MapOf({<<Chars("width"), Chars("8")>>})))
VectorConfig == TestbenchConfig(Some(10), Some(100), Some(<<OneEachVector>>), None)

\* what load_config gives: None if the file cannot be read or is not a config
LoadResults == {None, Some(WidthOverride), Some(LowerOverride), Some(VectorConfig)}

\* what fs::read_to_string gives for the template file
TemplateContents == {None, Some(ShortTemplate)}

File(path, text) == [path |-> path, content |-> text]

MainInit ==
    /\ matches \in {m \in CommandLines : Accepted(m)}
    /\ file_content = Unset
    /\ baseline_config = Unset
    /\ written = <<>>
    /\ exit_code = "running"
    /\ main_pc = "start"
    /\ entity = Unset /\ tb_config = Unset /\ template = Unset /\ testbench_data = Unset
    /\ final_testbench = Unset /\ rendered = Unset /\ gen_pc = Unset
    /\ ParseIdle /\ SplitIdle /\ ResolveIdle

\* if let Some(entity_name) = generate_template: save_vhdl_template and return
MainGenerateTemplate ==
    /\ main_pc = "start" /\ exit_code = "running"
    /\ matches.generate_template # None
    /\ \E saved \in BOOLEAN :
          IF saved
          THEN /\ written' = Append(written,
                      File(matches.generate_template[1] \o Chars(".vhd"),
                           generate_vhdl_template(matches.generate_template[1])))
               /\ exit_code' = "ok"
          ELSE /\ exit_code' = "err"
               /\ UNCHANGED written
    /\ UNCHANGED <<matches, file_content, baseline_config, main_pc>>
    /\ UNCHANGED <<parse_vars, split_vars, res_vars, gen_vars>>

\* let entity = VhdlParser::parse_file(input_file)?;
MainParseFile ==
    /\ main_pc = "start" /\ exit_code = "running"
    /\ matches.generate_template = None
    /\ \E read \in FileContents :
          /\ file_content' = read
          /\ \E r \in {parse_file(read)} :
                IF r.ok
                THEN /\ entity' = r.value
                     /\ main_pc' = IF matches.generate_config THEN "generate_config"
                                   ELSE "load_config"
                     /\ UNCHANGED exit_code
                ELSE /\ exit_code' = "err"
                     /\ UNCHANGED <<entity, main_pc>>
    /\ UNCHANGED <<matches, baseline_config, written>>
    /\ UNCHANGED <<tb_config, template, testbench_data, final_testbench, rendered, gen_pc>>
    /\ UNCHANGED <<parse_vars, split_vars, res_vars>>

\* if generate_config: generate_baseline_config, save_config and return
MainGenerateConfig ==
    /\ main_pc = "generate_config" /\ exit_code = "running"
    /\ \E config \in {generate_baseline_config(entity)} :
          /\ baseline_config' = config
          /\ \E saved \in BOOLEAN :
                IF saved
                THEN /\ written' = Append(written,
                            File(entity.name \o Chars("_config.toml"), config))
                     /\ exit_code' = "ok"
                ELSE /\ exit_code' = "err"
                     /\ UNCHANGED written
    /\ UNCHANGED <<matches, file_content, main_pc>>
    /\ UNCHANGED <<parse_vars, split_vars, res_vars, gen_vars>>

\* let config = ...: the file of --config, or else the default config file if it exists
MainLoadConfig ==
    /\ main_pc = "load_config" /\ exit_code = "running"
    /\ \E exists \in BOOLEAN, loaded \in LoadResults :
          IF matches.config # None \/ exists
          THEN IF loaded # None
               THEN /\ tb_config' = loaded
                    /\ main_pc' = "generate"
                    /\ UNCHANGED exit_code
               ELSE /\ exit_code' = "err"
                    /\ UNCHANGED <<tb_config, main_pc>>
          ELSE /\ tb_config' = None
               /\ main_pc' = "generate"
               /\ UNCHANGED exit_code
    /\ UNCHANGED <<matches, file_content, baseline_config, written>>
    /\ UNCHANGED <<entity, template, testbench_data, final_testbench, rendered, gen_pc>>
    /\ UNCHANGED <<parse_vars, split_vars, res_vars>>

\* let testbench_data = TestbenchGenerator::generate_testbench_data(&entity, config.as_ref());
MainGenerateData ==
    /\ main_pc = "generate" /\ exit_code = "running"
    /\ \E orders \in IterationOrders(tb_config) :
          testbench_data' = generate_testbench_data(entity, tb_config, orders)
    /\ main_pc' = "load_template"
    /\ UNCHANGED <<matches, file_content, baseline_config, written, exit_code>>
    /\ UNCHANGED <<entity, tb_config, template, final_testbench, rendered, gen_pc>>
    /\ UNCHANGED <<parse_vars, split_vars, res_vars>>

\* let template = ...: the file of --template, or else the bundled template
MainLoadTemplate ==
    /\ main_pc = "load_template" /\ exit_code = "running"
    /\ \E read \in TemplateContents :
          IF matches.template = None
          THEN /\ template' = DEFAULT_TEMPLATE
               /\ main_pc' = "write"
               /\ UNCHANGED exit_code
          ELSE IF read # None
               THEN /\ template' = read[1]
                    /\ main_pc' = "write"
                    /\ UNCHANGED exit_code
               ELSE /\ exit_code' = "err"
                    /\ UNCHANGED <<template, main_pc>>
    /\ UNCHANGED <<matches, file_content, baseline_config, written>>
    /\ UNCHANGED <<entity, tb_config, testbench_data, final_testbench, rendered, gen_pc>>
    /\ UNCHANGED <<parse_vars, split_vars, res_vars>>

\* the file of --output, or else <entity_name>_tb.vhd
output_file == unwrap_or(matches.output, entity.name \o Chars("_tb.vhd"))

\* let final_testbench = testbench_data.apply_to_template(&template);
\* fs::write(&output_file, final_testbench)?;
MainWriteTestbench ==
    /\ main_pc = "write" /\ exit_code = "running"
    /\ \E text \in {apply_to_template(testbench_data, template)} :
          /\ final_testbench' = text
          /\ \E saved \in BOOLEAN :
                IF saved
                THEN /\ written' = Append(written, File(output_file, text))
                     /\ exit_code' = "ok"
                ELSE /\ exit_code' = "err"
                     /\ UNCHANGED written
    /\ UNCHANGED <<matches, file_content, baseline_config, main_pc>>
    /\ UNCHANGED <<entity, tb_config, template, testbench_data, rendered, gen_pc>>
    /\ UNCHANGED <<parse_vars, split_vars, res_vars>>

MainNext ==
    \/ MainGenerateTemplate \/ MainParseFile \/ MainGenerateConfig \/ MainLoadConfig
    \/ MainGenerateData \/ MainLoadTemplate \/ MainWriteTestbench

MainSpec == MainInit /\ [][MainNext]_vars

\* main has returned
Returned == exit_code \in {"ok", "err"}

----------------------------------------------------------------------------
(* What the input declares *)

IsIdentifier(id) == id # <<>> /\ \A k \in 1..Len(id) : IsWord(id[k])

\* the entity clause of the input is entity <id> is, in any letter case, with white space
\* (outside comments) on both sides of <id>
WellFormedEntity(in) ==
    /\ to_lowercase(in.kw) = KwEntity
    /\ in.sep1 \in GoodSeps
    /\ IsIdentifier(in.id)
    /\ in.sep2 \in GoodSeps
    /\ to_lowercase(in.isw) = KwIs

HasEntity(in) == in.first # None \/ WellFormedEntity(in)

\* the <id> of the first well-formed entity clause, lowercased
ExpectedName(in) == to_lowercase(IF in.first # None THEN in.first[1] ELSE in.id)

----------------------------------------------------------------------------
(* Claims *)

\* C1: for an input holding a well-formed entity <id> is clause, parse_content succeeds
\* and the entity name is the <id> of the first such clause, lowercased, whatever white
\* space, line breaks or -- comments stand around or before it.
C1_EntityNameLowercased ==
    (Done /\ HasEntity(input)) => (result.ok /\ result.value.name = ExpectedName(input))

\* a mixed-case name after a comment that itself holds an entity clause
C1_Witness ==
    /\ Done
    /\ WellFormedEntity(input) /\ input.first = None
    /\ input.kw = Chars("ENTITY")
    /\ input.sep1 = Chars(" -- entity zz is\n")
    /\ input.id = Chars("My_Top")
    /\ result.ok /\ result.value.name = Chars("my_top")

\* C8: without an entity <identifier> is pattern in the normalized input parse_content
\* returns an error and no entity, whatever sections the input has, and it does so before
\* generics and ports are extracted.
C8_MissingEntityIsError ==
    (Done /\ ~HasEntity(input)) =>
        (~result.ok /\ entity_name = Unset /\ generics = Unset /\ ports = Unset
         /\ port_content = Unset)

\* an input with generics and ports sections whose entity clause lacks white space
C8_Witness ==
    /\ Done
    /\ ~HasEntity(input)
    /\ input.sep1 = Chars("")
    /\ input.gens.present /\ input.prts.shape = "ok"
    /\ ~result.ok /\ result.value = Chars("Could not find entity name")

\* a text free of comments as clean_content leaves it, its edges kept: every run of white
\* space one space, every letter lowercased
Normalized(s) ==
    LET keep == SelectSeq(Indices(s), LAMBDA i : ~IsSpace(s[i]) \/ i = 1 \/ ~IsSpace(s[i - 1]))
    IN [k \in 1..Len(keep) |-> IF IsSpace(s[keep[k]]) THEN " " ELSE LowerChar(s[keep[k]])]

\* a parenthesized group that holds another one
Nested(range) == \E i \in 2..Len(range) : range[i] = "("

AllWellFormed(in) == \A k \in 1..Len(in.prts.clauses) : in.prts.clauses[k].wf

HasNestedRange(in) ==
    \E k \in 1..Len(in.prts.clauses) :
        /\ in.prts.clauses[k].wf
        /\ in.prts.clauses[k].range # None
        /\ Nested(in.prts.clauses[k].range[1])

NoNestedRange(in) == ~HasNestedRange(in)

Unbalanced(in) == in.prts.shape \in {"noclose", "extraopen"}

\* the last n characters of s
Suffix(s, n) == SubSeq(s, Len(s) - n + 1, Len(s))

\* C2: for a ports section holding a range with nested parentheses, the balanced scan
\* yields exactly the text between the "(" after port and its matching ")", and the
\* split yields the clauses as written, none cut at a ";" or ")" inside parentheses.
C2_LocateAndSplitKeepRanges ==
    (Done /\ HasEntity(input) /\ input.prts.shape = "ok" /\ HasNestedRange(input)) =>
        /\ port_content = Some(Normalized(WrittenInterior(input.prts)))
        /\ port_declarations =
               Some([k \in 1..Len(input.prts.clauses) |-> Normalized(input.prts.clauses[k].text)])

\* a range nested two deep after a plain clause, and a ";" inside parentheses
C2_Witness ==
    /\ Done
    /\ input.prts.shape = "ok"
    /\ port_declarations \in
          {Some(<<Chars("clk : in std_logic"),
                  Chars("q : out std_logic_vector(f(f(w))-1 downto 0)")>>),
           Some(<<Chars("io : inout bus_t(g(1;2) to 3)")>>)}
    /\ HasNestedRange(input)

\* C3: for a clause <id> : <in|out|inout> <type> (<range-expression>),
\* parse_port_declaration_improved stores as range the whole trailing group of the
\* declaration, from its "(" to the matching ")", nested parentheses included.
C3_RangeIsWholeGroup ==
    (Done /\ HasEntity(input) /\ input.prts.shape = "ok" /\ AllWellFormed(input)) =>
        /\ Len(ports) = Len(input.prts.clauses)
        /\ \A k \in 1..Len(input.prts.clauses) :
              input.prts.clauses[k].range # None =>
                  ports[k].range =
                      Some(Suffix(port_declarations[1][k], Len(input.prts.clauses[k].range[1])))

\* C4: after parse_content the range of a port is the group as the source writes it,
\* letter case included, while name, direction and type are lowercased.
C4_RangeKeepsSourceCase ==
    (Done /\ HasEntity(input) /\ input.prts.shape = "ok" /\ AllWellFormed(input)
          /\ NoNestedRange(input)) =>
        /\ Len(ports) = Len(input.prts.clauses)
        /\ \A k \in 1..Len(input.prts.clauses) :
              /\ ports[k].name = to_lowercase(input.prts.clauses[k].name)
              /\ ports[k].direction = to_lowercase(input.prts.clauses[k].dir)
              /\ ports[k].signal_type = to_lowercase(input.prts.clauses[k].type)
              /\ ports[k].range = input.prts.clauses[k].range

\* the generic the item declares, in the letter case of the normalized text
DeclaredGeneric(item) ==
    VhdlGeneric(to_lowercase(item.name), to_lowercase(item.type),
                IF item.default = None THEN None ELSE Some(to_lowercase(item.default[1])))

\* generic ( a : t1 := d1 ; b : t2 )
TwoGenericsForm(g) ==
    /\ g.present
    /\ Len(g.items) = 2
    /\ g.items[1].default # None
    /\ g.items[2].default = None

\* C5: for a generics block generic ( a : t1 := d1 ; b : t2 ), whatever follows its
\* closing parenthesis, extract_generics returns exactly the two generics a (default d1)
\* and b (no default), and nothing from outside the block.
C5_ExactlyTwoGenerics ==
    (Done /\ HasEntity(input) /\ TwoGenericsForm(input.gens)) =>
        generics = <<DeclaredGeneric(input.gens.items[1]), DeclaredGeneric(input.gens.items[2])>>

\* C6: the generics section reaches to the ")" that balances the "(" after generic, so a
\* default holding parentheses does not end it early and every generic declared after
\* it is extracted.
C6_GenericsSectionBalanced ==
    (Done /\ HasEntity(input) /\ input.gens.present /\ input.gens.term # <<>>) =>
        /\ Len(generics) = Len(input.gens.items)
        /\ \A k \in 1..Len(input.gens.items) :
              generics[k].name = to_lowercase(input.gens.items[k].name)

WithEmptyGenerics(in) == [in EXCEPT !.gens = Gens(<<>>, Chars(";"))]
WithEmptyPorts(in) == [in EXCEPT !.prts = Ports("ok", "port ", <<>>)]

\* C9: with an entity name, a missing generics section gives an empty generics sequence
\* and a missing ports section an empty ports sequence, never an error, and the rest of
\* the entity is what the same text with that section present and empty gives.
C9_AbsentSectionAsEmpty ==
    (Done /\ HasEntity(input)) =>
        /\ ~input.gens.present =>
              /\ result.ok /\ result.value.generics = <<>>
              /\ result = parse_content(Render(WithEmptyGenerics(input)))
        /\ input.prts.shape = "absent" =>
              /\ result.ok /\ result.value.ports = <<>>
              /\ result = parse_content(Render(WithEmptyPorts(input)))

Wellformed(clauses) == SelectSeq(clauses, LAMBDA cl : cl.wf)

OneMalformed(in) == Len(Wellformed(in.prts.clauses)) + 1 = Len(in.prts.clauses)

\* C10: of N clauses with exactly one not of the shape <id> : <in|out|inout> <type>
\* [(<range>)], parse_content returns the N-1 well-formed ports in declaration order and
\* nothing for the malformed one.
C10_MalformedClauseSkipped ==
    (Done /\ HasEntity(input) /\ input.prts.shape = "ok" /\ OneMalformed(input)) =>
        /\ result.ok
        /\ Len(ports) = Len(input.prts.clauses) - 1
        /\ \A k \in 1..Len(ports) :
              k <= Len(Wellformed(input.prts.clauses)) =>
                  ports[k].name = to_lowercase(Wellformed(input.prts.clauses)[k].name)

\* number of "(" less number of ")" among the first n characters of text
DepthAfter(text, n) ==
    Cardinality({i \in 1..n : text[i] = "("}) - Cardinality({i \in 1..n : text[i] = ")"})

\* the ";" of text that stand at depth zero, in order, and the end of the text
Boundaries(text) ==
    SelectSeq(Indices(text), LAMBDA i : text[i] = ";" /\ DepthAfter(text, i - 1) = 0)
    \o <<Len(text) + 1>>

\* the text between the boundaries, trimmed
Pieces(text) ==
    [k \in 1..Len(Boundaries(text)) |->
        trim(SubSeq(text, IF k = 1 THEN 1 ELSE Boundaries(text)[k - 1] + 1,
                          Boundaries(text)[k] - 1))]

\* C16: splitting is idempotent: the clauses of s joined with ";" and split again are the
\* same clauses in the same order.
C16_SplitIdempotent == SplitDone => redeclarations = declarations

\* three clauses, one holding a ";" inside parentheses, split twice
C16_Witness ==
    /\ SplitDone
    /\ split_text = Chars("a;(;)")
    /\ declarations = <<Chars("a"), Chars("(;)")>>
    /\ redeclarations = declarations

\* C19: a ";" ends a clause exactly when the depth there is zero; the clauses are the
\* trimmed non-empty texts between such ";" (the last one needs no ";"), in input order;
\* and in an interior taken by the balanced scan of extract_ports the depth never goes
\* below zero and is zero at the end.
C19_SplitAtDepthZero ==
    SplitDone =>
        /\ declarations = SelectSeq(Pieces(split_text), LAMBDA piece : piece # <<>>)
        /\ located # None =>
              /\ \A n \in 0..Len(located[1]) : DepthAfter(located[1], n) >= 0
              /\ DepthAfter(located[1], Len(located[1])) = 0

\* a ";" inside parentheses kept, and a last clause without ";"
C19_Witness ==
    /\ SplitDone
    /\ split_text = Chars("(;);a")
    /\ declarations = <<Chars("(;)"), Chars("a")>>
    /\ located = Some(split_text)

\* the value the precedence of C11 gives a generic: the override under its name as
\* stored, the override under its upper-cased name, its default, "32"
OverrideUnder(config, key) ==
    IF config # None /\ config[1].generics # None /\ key \in DOMAIN config[1].generics[1]
    THEN Some(config[1].generics[1][key])
    ELSE None

ValueByPrecedence(generic, config) ==
    IF OverrideUnder(config, generic.name) # None THEN OverrideUnder(config, generic.name)[1]
    ELSE IF OverrideUnder(config, to_uppercase(generic.name)) # None
         THEN OverrideUnder(config, to_uppercase(generic.name))[1]
    ELSE IF generic.default_value # None THEN generic.default_value[1]
    ELSE Chars("32")

SingleGeneric == Len(res_generics) = 1

\* the range names the generic, as stored or upper-cased
RangeNamesGeneric ==
    res_range \in {RangeOf(res_generics[1].name), RangeOf(to_uppercase(res_generics[1].name))}

\* C11: resolve_generic_range gives a generic the override under its name as stored, else
\* the override under its upper-cased name, else its declared default, else 32; a config
\* without an entry for the generic counts as no config.
C11_ValuePrecedence ==
    (ResolveDone /\ SingleGeneric /\ RangeNamesGeneric) =>
        resolved = RangeOf(ValueByPrecedence(res_generics[1], res_config))

\* WIDTH with default 8: 16 with the override, 8 without, and 32 with neither
C11_Witness ==
    /\ ResolveDone /\ SingleGeneric
    /\ res_generics[1].name = Chars("WIDTH")
    /\ res_range = Chars("(WIDTH-1 downto 0)")
    /\ \/ /\ res_config = Some(OverridesOnly(Some(MapOf({<<Chars("WIDTH"), Chars("16")>>}))))
          /\ res_generics[1].default_value = Some(Chars("8"))
          /\ resolved = Chars("(16-1 downto 0)")
       \/ /\ res_config = None
          /\ res_generics[1].default_value = Some(Chars("8"))
          /\ resolved = Chars("(8-1 downto 0)")
       \/ /\ res_config = Some(OverridesOnly(Some(MapOf({}))))
          /\ res_generics[1].default_value = None
          /\ resolved = Chars("(32-1 downto 0)")

Occurs(text, name) == \E i \in 1..Len(text) : HasAt(text, i, name)

\* C12: the resolved range holds no occurrence of the name of any listed generic, as
\* stored or upper-cased, also when the value or name of one generic holds the name of
\* another.
C12_NoGenericNameLeft ==
    ResolveDone =>
        \A k \in 1..Len(res_generics) :
            /\ ~Occurs(resolved, res_generics[k].name)
            /\ ~Occurs(resolved, to_uppercase(res_generics[k].name))

\* C14: for the stack entity with generic DATA_WIDTH (default 32), ports of range
\* (DATA_WIDTH-1 downto 0) and a config overriding DATA_WIDTH to 32, the port block and
\* the internal-signal block of generate_testbench_data both hold (31 downto 0).
C14_RangesResolvedToNumbers ==
    (DataReady /\ entity = StackEntity /\ tb_config = Some(StackConfig)) =>
        /\ contains(testbench_data.ports, Chars("(31 downto 0)"))
        /\ contains(testbench_data.internal_signals, Chars("(31 downto 0)"))

\* C18: two calls of generate_testbench_data and apply_to_template with the same entity,
\* config and template give the same text, whatever the order in which the mappings of
\* the test vectors are iterated.
C18_SameArgumentsSameText ==
    GenDone => \A i \in 1..Len(rendered) : rendered[i] = rendered[1]

\* the signal is assigned by the clock or stimulus statements of the data
Assigns(data, signal) ==
    \/ contains(data.clk_gen, Chars("    ") \o signal \o Chars(" <= "))
    \/ contains(data.stim_proc, Chars("    ") \o signal \o Chars(" <= "))

\* the signal is declared in the internal-signal block of the data
Declares(data, signal) ==
    contains(data.internal_signals, Chars("signal ") \o signal \o Chars(" : "))

\* the testbench signals the generator may assign without a test vector naming them
BuiltInSignals(entity_value) ==
    {Chars("tb_clk"), Chars("tb_rst"), Chars("tb_push"), Chars("tb_pop"), Chars("tb_data_in")}
    \cup {Chars("tb_") \o entity_value.ports[i].name : i \in 1..Len(entity_value.ports)}

\* C20: every testbench signal that the clock generation, the reset sequence or the
\* built-in basic tests assign is declared in the internal-signal block.
C20_AssignedSignalsDeclared ==
    (DataReady /\ (tb_config = None \/ tb_config[1].test_vectors = None)) =>
        \A signal \in BuiltInSignals(entity) :
            Assigns(testbench_data, signal) => Declares(testbench_data, signal)

----------------------------------------------------------------------------
(* main: what it generates from the entity counter, the baseline config, *)
(* and when it writes a file                                              *)

\* generate_testbench_data has returned in main
MainDataReady == main_pc \in {"load_template", "write"}

\* main runs on the entity counter without a config or with the override WIDTH = 4
CounterCase ==
    /\ MainDataReady
    /\ file_content = Some(CounterText)
    /\ (tb_config = None \/ tb_config = Some(WidthOverride))

BaselineReady == main_pc = "generate_config" /\ Returned

PortsOfDirection(prts, direction) ==
    {k \in 1..Len(prts) : prts[k].direction = Chars(direction)}

NamesOfDirection(prts, direction) ==
    {prts[k].name : k \in PortsOfDirection(prts, direction)}

\* the mapping has one entry for each port of the direction and no other entry
OneEntryPerPort(map, prts, direction) ==
    /\ DOMAIN map = NamesOfDirection(prts, direction)
    /\ Cardinality(DOMAIN map) = Cardinality(PortsOfDirection(prts, direction))

IsRangedVector(port) == port.signal_type = Chars("std_logic_vector") /\ port.range # None

\* the ranged vector ports of the direction have the value "00000000" in the mapping
RangedVectorsMultiBit(map, prts, direction) ==
    \A k \in PortsOfDirection(prts, direction) :
        IsRangedVector(prts[k]) => map[prts[k].name] = Chars("\"00000000\"")

BaselineVectors == baseline_config.test_vectors[1]

\* C15: generate_baseline_config gives exactly one test vector; its inputs have exactly
\* one entry per in port and its expected outputs exactly one entry per out port, inout
\* ports are in neither; for the entity counter (one in std_logic port, one ranged out
\* std_logic_vector port) each mapping has one entry and the value of the ranged vector
\* port is "00000000", not 0.
C15_BaselineOneEntryPerPort ==
    BaselineReady =>
        /\ baseline_config.test_vectors # None
        /\ Len(BaselineVectors) = 1
        /\ OneEntryPerPort(BaselineVectors[1].inputs, entity.ports, "in")
        /\ BaselineVectors[1].expected_outputs # None
        /\ OneEntryPerPort(BaselineVectors[1].expected_outputs[1], entity.ports, "out")
        /\ RangedVectorsMultiBit(BaselineVectors[1].inputs, entity.ports, "in")
        /\ RangedVectorsMultiBit(BaselineVectors[1].expected_outputs[1], entity.ports, "out")
        /\ file_content = Some(CounterText) =>
              /\ BaselineVectors[1].inputs = MapOf({<<Chars("clk"), Chars("0")>>})
              /\ BaselineVectors[1].expected_outputs[1]
                    = MapOf({<<Chars("q"), Chars("\"00000000\"")>>})

C15_Witness ==
    /\ BaselineReady
    /\ file_content = Some(GateText)
    /\ Len(entity.ports) = 6
    /\ Cardinality(DOMAIN BaselineVectors[1].inputs) = 3
    /\ Cardinality(DOMAIN BaselineVectors[1].expected_outputs[1]) = 2
    /\ BaselineVectors[1].expected_outputs[1][Chars("z")] = Chars("\"00000000\"")

\* main has returned an error from parse_file, from load_config or from reading the
\* template file
FailedBeforeWrite ==
    /\ exit_code = "err"
    /\ main_pc \in {"start", "load_config", "load_template"}
    /\ matches.generate_template = None

\* a file other than the entity template has been written
OutputWritten == written # <<>> /\ matches.generate_template = None

\* C17: main writes no output file when parsing fails: a testbench or a baseline config
\* is written only after parse_file returned Ok, and a testbench only after the config
\* load and the read of a custom template succeeded as well; a failure of one of these
\* steps ends the run with an error and no file written.
C17_NoOutputOnFailure ==
    /\ FailedBeforeWrite => written = <<>>
    /\ OutputWritten =>
          /\ exit_code = "ok"
          /\ Len(written) = 1
          /\ file_content # None
          /\ parse_content(file_content[1]).ok
          /\ main_pc \in {"generate_config", "write"}
          /\ main_pc = "write" =>
                /\ (matches.config # None => tb_config # None)
                /\ (matches.template # None => template = ShortTemplate)

C17_Witness ==
    /\ FailedBeforeWrite
    /\ main_pc = "start"
    /\ file_content = Some(ArchitectureText)
    /\ written = <<>>

====
